---- MODULE Spec2Model ----
(***************************************************************************)
(* saraki/endpoints.py: the json decorator, the Collection query-string    *)
(* pipeline, the generic CRUD view functions and add_resource.             *)
(*                                                                         *)
(* The resource is one model class with an integer primary key `id`, a     *)
(* string column `name` and, when it is an organization (tenant) model,    *)
(* an integer column `org_id`.  Strings are sequences of characters;       *)
(* JSON values are tagged [t |-> "int"|"str", v |-> value].                *)
(***************************************************************************)
EXTENDS Integers, Sequences, FiniteSets, TLC

VARIABLES
    is_org,     \* hasattr(modelcls, "org_id") of the model class served
    db,         \* committed rows of the model's table
    nextId,     \* next value of the autoincrement primary key
    before,     \* rows at the moment the request in flight arrived
    resp,       \* the request in flight and what its handler did
    app         \* add_resource: the call and the url rules it registered

vars == <<is_org, db, nextId, before, resp, app>>

-----------------------------------------------------------------------------
(* Bounds *)

MaxRecords == 2

Orgs == {1, 2}
NoOrg == 0
Names == {<<"a", "b">>, <<"A">>}

(* Collection.__call__(self, default_limit=30, max_limit=100) *)
default_limit == 30
max_limit == 100

-----------------------------------------------------------------------------
(* Small helpers *)

Min(a, b) == IF a < b THEN a ELSE b

Range(s) == {s[i] : i \in DOMAIN s}

JInt(n) == [t |-> "int", v |-> n]
JStr(s) == [t |-> "str", v |-> s]

EmptyDict == <<>>

Restrict(f, S) == [k \in S |-> f[k]]

(* d1.update(d2) of Python dictionaries: the keys of d2 win *)
DictUpdate(d1, d2) ==
    [k \in DOMAIN d1 \cup DOMAIN d2 |-> IF k \in DOMAIN d2 THEN d2[k] ELSE d1[k]]

-----------------------------------------------------------------------------
(* The model class and its validation schema *)

Columns == IF is_org THEN {"id", "org_id", "name"} ELSE {"id", "name"}

ColumnType(c) == IF c = "name" THEN "str" ELSE "int"

(* generate_schema(modelcls): one rule set per column, the type taken from *)
(* the column; the non-nullable columns the client supplies are required.  *)
SchemaKeys == Columns
RequiredKeys == Columns \ {"id"}

(* Validator(schema).validate(document, update=...): the error map, empty  *)
(* when the document is valid.  Strict schema: unknown keys are errors;    *)
(* required keys are enforced unless update is set.                        *)
Validate(doc, update) ==
    LET unknown == {k \in DOMAIN doc : k \notin SchemaKeys}
        badtype == {k \in DOMAIN doc \cap SchemaKeys : doc[k].t # ColumnType(k)}
        missing == IF update THEN {} ELSE RequiredKeys \ DOMAIN doc
    IN  [k \in unknown \cup badtype \cup missing |->
            IF k \in unknown THEN "unknown field"
            ELSE IF k \in missing THEN "required field"
            ELSE "invalid type"]

(* import_data(model, data): generic field-by-field assignment of the keys *)
(* that are columns of the model                                           *)
ImportData(model, data) ==
    [c \in DOMAIN model \cup (DOMAIN data \cap Columns) |->
        IF c \in DOMAIN data THEN data[c].v ELSE model[c]]

RecordsOf(rows, org) == {r \in rows : "org_id" \in DOMAIN r /\ r.org_id = org}

-----------------------------------------------------------------------------
(* Responses *)

Idle == [kind |-> "idle"]

(* what a handler leaves behind: the table, the sequence and the response *)
Outcome(rows, nid, r) == [db |-> rows, nextId |-> nid, resp |-> r]

NoStatus == 0

(* abort(status), or an exception escaping the view function *)
Failed(exc, status, steps, errors) ==
    [exc |-> exc, status |-> status, steps |-> steps, errors |-> errors,
     payload |-> EmptyDict]

(* the object a view function returns: (payload, status) *)
Returned(status, steps, payload) ==
    [exc |-> "none", status |-> status, steps |-> steps, errors |-> EmptyDict,
     payload |-> payload]

-----------------------------------------------------------------------------
(* json(func): the decorator of every generated view function *)

json(method, isJson, body, ro) ==
    IF method = "POST" /\ ~isJson
    THEN Outcome(db, nextId, Failed("HTTPException", 415, <<>>, EmptyDict))
    ELSE IF method = "POST" /\ ~body.ok
    THEN Outcome(db, nextId, Failed("HTTPException", 400, <<>>, EmptyDict))
    ELSE IF ro.resp.exc = "none" /\ ro.resp.status = NoStatus
    THEN [ro EXCEPT !.resp.status = 200]
    ELSE ro

-----------------------------------------------------------------------------
(* add_view_func *)

(* a faulty add_view_func: the result of v.validate is not looked at *)
add_view_func_NoValidation(org, body) ==
    LET payload == IF is_org
                   THEN DictUpdate(body.doc, "org_id" :> JInt(org))
                   ELSE body.doc
        model == ImportData(EmptyDict, payload)
        row   == ("id" :> nextId) @@ model
    IN  Outcome(db \cup {row}, nextId + 1,
                Returned(201, <<"VALIDATE", "CONSTRUCT", "IMPORT", "ADD", "COMMIT",
                                "RETURN">>, row))

add_view_func(org, body) ==
    LET payload == IF is_org
                   THEN DictUpdate(body.doc, "org_id" :> JInt(org))
                   ELSE body.doc
        errors  == Validate(payload, FALSE)
    IN  IF errors # EmptyDict
        THEN Outcome(db, nextId,
                     Failed("ValidationError", 400, <<"VALIDATE", "INVALID">>, errors))
        ELSE LET model == ImportData(EmptyDict, payload)
                 row   == ("id" :> nextId) @@ model
             IN  Outcome(db \cup {row}, nextId + 1,
                         Returned(201, <<"VALIDATE", "VALID", "CONSTRUCT", "IMPORT",
                                         "ADD", "COMMIT", "RETURN">>, row))

-----------------------------------------------------------------------------
(* item_view *)

(* a faulty ident: the tenant is left out of the lookup *)
Ident_NoTenant(org, id) == ("id" :> id)

(* ident = {prop: kargs.get(prop) for prop in ident_prop}, plus the tenant *)
Ident(org, id) ==
    IF is_org THEN ("id" :> id) @@ ("org_id" :> org) ELSE ("id" :> id)

\* query.filter_by: the conjunction of one equality per key
FilterBy(rows, filters) ==
    {r \in rows : \A k \in DOMAIN filters : r[k] = filters[k]}

(* request.get_json() inside a PATCH: the payload, or the status of the    *)
(* error it ends in.  A body that is not JSON by content type gives None   *)
(* (the validator then raises on the missing document: 500) or, with a     *)
(* newer Flask, 400 or 415: jsonFault is the one the installation gives.   *)
GetJsonFaults == {400, 415, 500}

item_view(method, org, id, isJson, body, jsonFault) ==
    LET found == FilterBy(db, Ident(org, id))
    IN  IF found = {}
        THEN Outcome(db, nextId,
                     Failed("HTTPException", 404, <<"LOOKUP", "NOT_FOUND">>, EmptyDict))
        ELSE IF Cardinality(found) > 1
        THEN Outcome(db, nextId,
                     Failed("MultipleResultsFound", 500, <<"LOOKUP">>, EmptyDict))
        ELSE
        LET model == CHOOSE r \in found : TRUE
        IN  CASE method = "GET" ->
                   Outcome(db, nextId,
                           Returned(NoStatus, <<"LOOKUP", "FOUND", "RETURN">>, model))
              [] method = "DELETE" ->
                   Outcome(db \ {model}, nextId,
                           Returned(NoStatus, <<"LOOKUP", "FOUND", "DELETE", "COMMIT",
                                                "RETURN">>, model))
              [] method = "PATCH" ->
                   IF ~isJson
                   THEN Outcome(db, nextId,
                                Failed(IF jsonFault = 500 THEN "DocumentError"
                                       ELSE "HTTPException",
                                       jsonFault, <<"LOOKUP", "FOUND", "GET_JSON">>,
                                       EmptyDict))
                   ELSE IF ~body.ok
                   THEN Outcome(db, nextId,
                                Failed("HTTPException", 400,
                                       <<"LOOKUP", "FOUND", "GET_JSON">>, EmptyDict))
                   ELSE
                   LET errors == Validate(body.doc, TRUE)
                   IN  IF errors # EmptyDict
                       THEN Outcome(db, nextId,
                                    Failed("ValidationError", 400,
                                           <<"LOOKUP", "FOUND", "GET_JSON", "VALIDATE",
                                             "INVALID">>, errors))
                       ELSE LET row == ImportData(model, body.doc)
                            IN  Outcome((db \ {model}) \cup {row}, nextId,
                                        Returned(NoStatus,
                                                 <<"LOOKUP", "FOUND", "GET_JSON",
                                                   "VALIDATE", "VALID", "APPLY", "COMMIT",
                                                   "RETURN">>, row))

-----------------------------------------------------------------------------
(* Text *)

Digits == <<"0", "1", "2", "3", "4", "5", "6", "7", "8", "9">>

IsDigit(c) == \E i \in DOMAIN Digits : Digits[i] = c

DigitValue(c) == (CHOOSE i \in DOMAIN Digits : Digits[i] = c) - 1

RECURSIVE DigitsValue(_)
DigitsValue(s) ==
    IF s = <<>> THEN 0
    ELSE 10 * DigitsValue(SubSeq(s, 1, Len(s) - 1)) + DigitValue(s[Len(s)])

(* int(s) of a query-string value: an optional sign and decimal digits,    *)
(* ValueError otherwise                                                    *)
ParseInt(s) ==
    LET signed == s # <<>> /\ s[1] \in {"-", "+"}
        digits == IF signed THEN Tail(s) ELSE s
    IN  IF digits # <<>> /\ \A i \in DOMAIN digits : IsDigit(digits[i])
        THEN [ok |-> TRUE,
              v  |-> IF signed /\ s[1] = "-" THEN 0 - DigitsValue(digits)
                     ELSE DigitsValue(digits)]
        ELSE [ok |-> FALSE, v |-> 0]

(* CAST(column AS TEXT) of a non-negative integer *)
RECURSIVE IntToText(_)
IntToText(n) ==
    IF n < 10 THEN <<Digits[n + 1]>>
    ELSE IntToText(n \div 10) \o <<Digits[(n % 10) + 1]>>

Lower(c) == CASE c = "A" -> "a" [] c = "B" -> "b" [] OTHER -> c

LowerText(s) == [i \in DOMAIN s |-> Lower(s[i])]

Contains(text, term) ==
    \E i \in 0..(Len(text) - Len(term)) : SubSeq(text, i + 1, i + Len(term)) = term

(* column.ilike("%term%"): a case-insensitive substring match *)
ILike(text, term) == Contains(LowerText(text), LowerText(term))

CodePoint(c) ==
    CASE c = "A" -> 65 [] c = "B" -> 66 [] c = "a" -> 97 [] c = "b" -> 98
      [] OTHER -> 48 + DigitValue(c)

RECURSIVE TextLess(_, _)
TextLess(a, b) ==
    IF b = <<>> THEN FALSE
    ELSE IF a = <<>> THEN TRUE
    ELSE IF a[1] # b[1] THEN CodePoint(a[1]) < CodePoint(b[1])
    ELSE TextLess(Tail(a), Tail(b))

-----------------------------------------------------------------------------
(* Collection._parse_query_string *)

json_keys == {"select", "search", "filter"}

(* the text of a select/search/filter value is given by what json_loads    *)
(* makes of it: JSONDecodeError, a JSON object, or another JSON value      *)
Undecodable == [json |-> "invalid", doc |-> EmptyDict]
Scalar == [json |-> "number", doc |-> EmptyDict]
Object(d) == [json |-> "object", doc |-> d]

(* the error of one key of the decoded query string under                  *)
(* query_string_schema, "" when the key is valid                           *)
KeyError(k, raw) ==
    CASE k = "select" ->
           IF raw.json # "object" THEN "must be of dict type"
           ELSE IF ~(DOMAIN raw.doc \subseteq Columns) THEN "unallowed values"
           ELSE IF \E c \in DOMAIN raw.doc : raw.doc[c].t # "int"
                THEN "must be of integer type"
           ELSE ""
      [] k = "search" ->
           IF raw.json # "object" THEN "must be of dict type"
           ELSE IF ~(Range(raw.doc.f) \subseteq Columns) THEN "unallowed values"
           ELSE ""
      [] k = "filter" ->
           IF raw.json # "object" THEN "must be of dict type"
           ELSE IF Validate(raw.doc, TRUE) # EmptyDict THEN "invalid document"
           ELSE ""
      [] k = "sort" -> ""
      [] k \in {"limit", "page"} ->
           IF ParseInt(raw).ok THEN "" ELSE "could not be coerced"
      [] OTHER -> "unknown field"

(* v.normalized(decoded_qs): limit and page coerced to integers *)
Normalized(k, raw) ==
    CASE k \in json_keys -> raw.doc
      [] k \in {"limit", "page"} -> ParseInt(raw).v
      [] OTHER -> raw

(* order: the select/search/filter keys of the query string in the order   *)
(* they appear in it                                                       *)
_parse_query_string(qs, order) ==
    LET bad == {i \in DOMAIN order : qs[order[i]].json = "invalid"}
    IN  IF bad # {}
        THEN LET first == order[CHOOSE i \in bad : \A j \in bad : i <= j]
             IN  [ok |-> FALSE, errors |-> (first :> "Invalid JSON string"),
                  modifiers |-> EmptyDict]
        ELSE LET failing == {k \in DOMAIN qs : KeyError(k, qs[k]) # ""}
             IN  IF failing # {}
                 THEN [ok |-> FALSE,
                       errors |-> [k \in failing |-> KeyError(k, qs[k])],
                       modifiers |-> EmptyDict]
                 ELSE [ok |-> TRUE, errors |-> EmptyDict,
                       modifiers |-> [k \in DOMAIN qs |-> Normalized(k, qs[k])]]

-----------------------------------------------------------------------------
(* The modifiers of the collection pipeline *)

(* _filter_modifier: query.filter_by over the merged filters *)
_filter_modifier(rows, filters) == FilterBy(rows, filters)

ColumnText(r, c) == IF ColumnType(c) # "str" THEN IntToText(r[c]) ELSE r[c]

(* _search_modifier: or_ of one ilike per search field *)
_search_modifier(rows, search) ==
    {r \in rows : \E i \in DOMAIN search.f : ILike(ColumnText(r, search.f[i]), search.t.v)}

(* a token of sort.split(","): "-" and the column name *)
SortDesc(token) == token # <<>> /\ token[1] = "-"
SortColumn(token) == IF SortDesc(token) THEN Tail(token) ELSE token
SortKnown(token) == Len(SortColumn(token)) = 1 /\ SortColumn(token)[1] \in Columns

ValueLess(c, x, y) == IF ColumnType(c) = "str" THEN TextLess(x, y) ELSE x < y

(* r1 comes strictly before r2 under ORDER BY sort[i], sort[i+1], ... *)
RECURSIVE Precedes(_, _, _, _)
Precedes(sort, i, r1, r2) ==
    IF i > Len(sort) THEN FALSE
    ELSE LET c == SortColumn(sort[i])[1]
         IN  IF r1[c] = r2[c] THEN Precedes(sort, i + 1, r1, r2)
             ELSE IF SortDesc(sort[i]) THEN ValueLess(c, r2[c], r1[c])
             ELSE ValueLess(c, r1[c], r2[c])

(* the orders in which the engine may give the rows of a query: every      *)
(* order that ORDER BY allows (any order at all without one)               *)
Orderings(rows, sort) ==
    {s \in [1..Cardinality(rows) -> rows] :
        /\ \A i, j \in DOMAIN s : i # j => s[i] # s[j]
        /\ \A i, j \in DOMAIN s : i < j => ~Precedes(sort, 1, s[j], s[i])}

(* query.paginate(page, limit) of Flask-SQLAlchemy: LIMIT limit OFFSET     *)
(* (page - 1) * limit; 404 for a page below 1 and for an empty page other  *)
(* than the first.  A negative limit is 404, an engine error, or no limit  *)
(* at all, depending on the installation: negLimit is the one it gives.    *)
NegLimitOutcomes == {"abort", "error", "unbounded"}

paginate(ordered, page, limit, negLimit) ==
    IF page < 1 THEN [status |-> 404, items |-> <<>>, total |-> 0]
    ELSE IF limit < 0 /\ negLimit = "abort"
    THEN [status |-> 404, items |-> <<>>, total |-> 0]
    ELSE IF limit < 0 /\ negLimit = "error"
    THEN [status |-> 500, items |-> <<>>, total |-> 0]
    ELSE LET offset == IF limit < 0 THEN 0 ELSE (page - 1) * limit
             last   == IF limit < 0 THEN Len(ordered)
                       ELSE Min(offset + limit, Len(ordered))
             items  == SubSeq(ordered, offset + 1, last)
         IN  IF items = <<>> /\ page # 1
             THEN [status |-> 404, items |-> <<>>, total |-> 0]
             ELSE [status |-> 200, items |-> items, total |-> Len(ordered)]

(* _parse_select_modifier *)
_parse_select_modifier(select) ==
    [include |-> {c \in DOMAIN select : select[c].v # 0},
     exclude |-> {c \in DOMAIN select : select[c].v = 0}]

(* export_data(items, include=..., exclude=...) *)
ExportData(items, params) ==
    [i \in DOMAIN items |->
        Restrict(items[i],
                 (IF params.include # {} THEN DOMAIN items[i] \cap params.include
                  ELSE DOMAIN items[i]) \ params.exclude)]

Get_(d, k, default) == IF k \in DOMAIN d THEN d[k] ELSE default

ListFailed(exc, status, steps, errors, parsed, modifiers, page, limit) ==
    Failed(exc, status, steps, errors)
        @@ [parsed |-> parsed, modifiers |-> modifiers,
            rows |-> <<>>, total |-> 0, page |-> page, limit |-> limit]

Stages(modifiers, filters) ==
    <<"PARSE">>
        \o (IF filters # EmptyDict THEN <<"FILTER">> ELSE <<>>)
        \o (IF "search" \in DOMAIN modifiers THEN <<"SEARCH">> ELSE <<>>)
        \o (IF "sort" \in DOMAIN modifiers THEN <<"SORT">> ELSE <<>>)

TenantFilter(org) == IF is_org THEN ("org_id" :> org) ELSE EmptyDict

MergedFilters(org, modifiers) ==
    IF "filter" \in DOMAIN modifiers
    THEN DictUpdate(TenantFilter(org),
                    [k \in DOMAIN modifiers["filter"] |-> modifiers["filter"][k].v])
    ELSE TenantFilter(org)

Selected(org, modifiers) ==
    LET filters  == MergedFilters(org, modifiers)
        filtered == IF filters # EmptyDict THEN _filter_modifier(db, filters) ELSE db
    IN  IF "search" \in DOMAIN modifiers
        THEN _search_modifier(filtered, modifiers["search"])
        ELSE filtered

EffectiveLimit(modifiers) == Min(Get_(modifiers, "limit", default_limit), max_limit)

SortOf(modifiers) == Get_(modifiers, "sort", <<>>)

SortValid(modifiers) == \A i \in DOMAIN SortOf(modifiers) : SortKnown(SortOf(modifiers)[i])

(* the rows the final query may give, in each order the engine may give    *)
(* them in                                                                 *)
QueryResults(org, qs, order) ==
    LET parse == _parse_query_string(qs, order)
    IN  IF parse.ok /\ SortValid(parse.modifiers)
        THEN Orderings(Selected(org, parse.modifiers), SortOf(parse.modifiers))
        ELSE {<<>>}

(* Collection.__call__: the wrapper around list_view_func.  ordered is the *)
(* result of the final query, one of QueryResults.                         *)
Collection_call(org, qs, order, ordered, negLimit) ==
    LET parse == _parse_query_string(qs, order)
        modifiers == parse.modifiers
        filters == MergedFilters(org, modifiers)
        steps == Stages(modifiers, filters)
    IN  IF ~parse.ok
        THEN Outcome(db, nextId,
                     ListFailed("ValidationError", 400, <<"PARSE">>, parse.errors,
                                FALSE, EmptyDict, 0, 0))
        ELSE IF ~SortValid(modifiers)
        THEN Outcome(db, nextId,
                     ListFailed("AttributeError", 500, steps, EmptyDict,
                                TRUE, modifiers, 0, 0))
        ELSE
        LET page   == Get_(modifiers, "page", 1)
            limit  == EffectiveLimit(modifiers)
            result == paginate(ordered, page, limit, negLimit)
            params == IF "select" \in DOMAIN modifiers
                      THEN _parse_select_modifier(modifiers["select"])
                      ELSE [include |-> {}, exclude |-> {}]
        IN  IF result.status # 200
            THEN Outcome(db, nextId,
                         ListFailed(IF result.status = 404 THEN "HTTPException"
                                    ELSE "DatabaseError",
                                    result.status, steps \o <<"PAGINATE">>, EmptyDict,
                                    TRUE, modifiers, page, limit))
            ELSE Outcome(db, nextId,
                         [parsed |-> TRUE, modifiers |-> modifiers,
                          rows |-> result.items, total |-> result.total,
                          page |-> page, limit |-> limit]
                         @@ Returned(NoStatus,
                                     steps \o <<"PAGINATE">>
                                         \o (IF "select" \in DOMAIN modifiers
                                             THEN <<"SELECT">> ELSE <<>>),
                                     ExportData(result.items, params)))

-----------------------------------------------------------------------------
(* Requests *)

CurrentOrgs == IF is_org THEN Orgs ELSE {NoOrg}

Ids == 1..MaxRecords

PayloadKeys == {"name", "org_id", "bogus"}

PayloadValues(k) ==
    CASE k = "name"   -> {JStr(n) : n \in Names} \cup {JInt(7)}
      [] k = "org_id" -> {JInt(o) : o \in Orgs}
      [] OTHER        -> {JInt(1)}

DocsOver(K) ==
    {d \in [K -> UNION {PayloadValues(k) : k \in K}] : \A k \in K : d[k] \in PayloadValues(k)}

PayloadDocs == UNION {DocsOver(K) : K \in SUBSET PayloadKeys}

(* a request body: a JSON object, or text that does not parse as JSON *)
Bodies == {[ok |-> TRUE, doc |-> d] : d \in PayloadDocs}
               \cup {[ok |-> FALSE, doc |-> EmptyDict]}

Keys == {"select", "search", "filter", "sort", "limit", "page", "foo"}

Garbage == <<"a">>

SelectDocs ==
    {("id" :> JInt(1)), ("name" :> JInt(0)), ("id" :> JInt(1)) @@ ("name" :> JInt(0)),
     ("bogus" :> JInt(1))}

SearchDocs ==
    {[t |-> JStr(<<"a">>), f |-> <<"name">>], [t |-> JStr(<<"1">>), f |-> <<"id", "name">>],
     [t |-> JStr(<<"a">>), f |-> <<"bogus">>]}

FilterDocs == UNION {DocsOver(K) : K \in SUBSET {"org_id", "name"}}

Sorts == {<< <<"id">> >>, << <<"-", "id">> >>, << <<"name">>, <<"-", "id">> >>,
          << <<"bogus">> >>}

RawValues(k) ==
    CASE k = "select" -> {Undecodable, Scalar} \cup {Object(d) : d \in SelectDocs}
      [] k = "search" -> {Undecodable, Scalar} \cup {Object(d) : d \in SearchDocs}
      [] k = "filter" -> {Undecodable, Scalar} \cup {Object(d) : d \in FilterDocs}
      [] k = "sort"   -> Sorts
      [] k = "limit"  -> {Garbage, <<"-", "1">>, <<"0">>, <<"1">>, <<"2">>,
                          <<"1", "0", "1">>}
      [] k = "page"   -> {Garbage, <<"0">>, <<"1">>, <<"2">>}
      [] OTHER        -> {<<"1">>}

(* query strings with one modifier *)
Singles == UNION {{k :> v : v \in RawValues(k)} : k \in Keys}

(* ... with an undecodable select, search or filter next to another one *)
WithUndecodable ==
    UNION {{(j :> Undecodable) @@ q : q \in {x \in Singles : j \notin DOMAIN x}} :
           j \in json_keys}

(* ... with valid filter, search, sort, limit and page together *)
Choice(k, values) == {EmptyDict} \cup {k :> v : v \in values}

Combined ==
    {f @@ s @@ o @@ l @@ p :
        f \in Choice("filter", {Object(d) : d \in DocsOver({"org_id"}) \cup DocsOver({"name"})}),
        s \in Choice("search", {Object([t |-> JStr(<<"a">>), f |-> <<"name">>])}),
        o \in Choice("sort", {<< <<"-", "id">> >>, << <<"name">>, <<"-", "id">> >>}),
        l \in Choice("limit", {<<"1">>, <<"2">>}),
        p \in Choice("page", {<<"1">>, <<"2">>})}

QueryStrings == {EmptyDict} \cup Singles \cup WithUndecodable \cup Combined

(* the orders the select/search/filter keys of qs can appear in *)
Orders(qs) ==
    LET J == DOMAIN qs \cap json_keys
    IN  {s \in [1..Cardinality(J) -> J] : \A i, j \in DOMAIN s : i # j => s[i] # s[j]}

Handle(kind, req, o) ==
    /\ o.nextId <= MaxRecords + 1
    /\ db' = o.db
    /\ nextId' = o.nextId
    /\ before' = db
    /\ resp' = [kind |-> kind] @@ req @@ o.resp
    /\ UNCHANGED <<is_org, app>>

Add ==
    /\ resp = Idle
    /\ \E org \in CurrentOrgs, isJson \in BOOLEAN, body \in Bodies :
          Handle("add", [org |-> org, isJson |-> isJson, body |-> body],
                 json("POST", isJson, body, add_view_func(org, body)))

Get ==
    /\ resp = Idle
    /\ \E org \in CurrentOrgs, id \in Ids :
          Handle("get", [org |-> org, id |-> id],
                 json("GET", TRUE, [ok |-> FALSE, doc |-> EmptyDict],
                      item_view("GET", org, id, TRUE,
                                [ok |-> FALSE, doc |-> EmptyDict], 400)))

Delete ==
    /\ resp = Idle
    /\ \E org \in CurrentOrgs, id \in Ids :
          Handle("delete", [org |-> org, id |-> id],
                 json("DELETE", TRUE, [ok |-> FALSE, doc |-> EmptyDict],
                      item_view("DELETE", org, id, TRUE,
                                [ok |-> FALSE, doc |-> EmptyDict], 400)))

Update ==
    /\ resp = Idle
    /\ \E org \in CurrentOrgs, id \in Ids, isJson \in BOOLEAN, body \in Bodies :
       \E jsonFault \in IF isJson THEN {400} ELSE GetJsonFaults :
          Handle("update",
                 [org |-> org, id |-> id, isJson |-> isJson, body |-> body],
                 json("PATCH", isJson, body,
                      item_view("PATCH", org, id, isJson, body, jsonFault)))

List ==
    /\ resp = Idle
    /\ \E org \in CurrentOrgs, qs \in QueryStrings :
       \E order \in Orders(qs) :
       \E ordered \in QueryResults(org, qs, order) :
       \E negLimit \in IF _parse_query_string(qs, order).ok
                           /\ EffectiveLimit(_parse_query_string(qs, order).modifiers) < 0
                        THEN NegLimitOutcomes ELSE {"abort"} :
          Handle("list", [org |-> org, qs |-> qs, order |-> order],
                 json("GET", TRUE, [ok |-> FALSE, doc |-> EmptyDict],
                      Collection_call(org, qs, order, ordered, negLimit)))

(* the response is sent and the request context is torn down *)
Deliver ==
    /\ resp # Idle
    /\ resp' = Idle
    /\ before' = db
    /\ UNCHANGED <<is_org, db, nextId, app>>

-----------------------------------------------------------------------------
(* add_resource *)

None == "None"

(* a name: words and the character that joins them *)
Joined(words, sep) == [sep |-> sep, words |-> words]

(* None or "", where a name is expected *)
NoName == Joined(<<>>, "")

(* modelcls.__tablename__ *)
table_name == Joined(<<"order", "line">>, "_")

(* "-".join(name.split("_")) *)
Dashed(name) == IF name.sep = "_" THEN [name EXCEPT !.sep = "-"] ELSE name

type_mapping(t) == IF t = "int" THEN "int" ELSE "string"

(* _generate_route_rules: the list rule and the item rule, each the tenant *)
(* prefix, the base url and the comma-separated identifier variables       *)
_generate_route_rules(base_url, ident_prop) ==
    LET list_rule == [tenant |-> is_org, base |-> base_url, vars |-> <<>>]
    IN  [list |-> list_rule,
         item |-> [list_rule EXCEPT
                     !.vars = [i \in DOMAIN ident_prop |->
                                 <<type_mapping(ColumnType(ident_prop[i])), ident_prop[i]>>]]]

(* require_auth(resource, parent_resource=...)(view_func) *)
require_auth(resource, parent) == [guarded |-> TRUE, resource |-> resource, parent |-> parent]

Unguarded == [guarded |-> FALSE, resource |-> NoName, parent |-> None]

MethodsGet(methods, k, default) == IF k \in DOMAIN methods THEN methods[k] ELSE default

add_resource(base_url, ident, methods, secure, resource_name, parent_resource) ==
    LET resource     == IF resource_name # NoName THEN resource_name ELSE table_name
        base         == IF base_url # NoName THEN base_url ELSE Dashed(table_name)
        primary_key  == <<"id">>
        ident_prop   == IF ident # None THEN <<ident>> ELSE primary_key
        rules        == _generate_route_rules(base, ident_prop)
        list_methods == MethodsGet(methods, "list", {"GET", "POST"})
        item_methods == MethodsGet(methods, "item", {"GET", "PATCH", "DELETE"})
        list_parent  == IF parent_resource # None THEN parent_resource
                        ELSE IF is_org THEN "org" ELSE None
        item_guard   == IF secure THEN require_auth(resource, None) ELSE Unguarded
        Rule(rule, verb, view, guard, method) ==
            [rule |-> rule, endpoint |-> <<verb, table_name>>,
             view |-> view, guard |-> guard, methods |-> {method}]
    IN  (IF "GET" \in list_methods
         THEN {Rule(rules.list, "list", "list_view_func",
                    IF secure THEN require_auth(resource, list_parent) ELSE Unguarded,
                    "GET")}
         ELSE {})
        \cup
        (IF "POST" \in list_methods
         THEN {Rule(rules.list, "add", "add_view_func",
                    IF secure THEN require_auth(resource, None) ELSE Unguarded, "POST")}
         ELSE {})
        \cup
        {Rule(rules.item,
              CASE m = "GET" -> "get" [] m = "PATCH" -> "update" [] OTHER -> "delete",
              "item_view", item_guard, m) : m \in item_methods \cap {"GET", "PATCH", "DELETE"}}

NoApp == [registered |-> FALSE]

MethodsArgs ==
    {l @@ i : l \in {EmptyDict} \cup {"list" :> x : x \in SUBSET {"GET", "POST"}},
              i \in {EmptyDict} \cup {"item" :> x : x \in SUBSET {"GET", "PATCH", "DELETE"}}}

AddResource ==
    /\ app = NoApp
    /\ \E secure \in BOOLEAN, methods \in MethodsArgs,
          resource_name \in {NoName, Joined(<<"stock">>, "_")},
          parent_resource \in {None, "org", "account"}, ident \in {None, "name"} :
          app' = [registered |-> TRUE,
                  args |-> [secure |-> secure, methods |-> methods, ident |-> ident,
                            resource_name |-> resource_name,
                            parent_resource |-> parent_resource],
                  rules |-> add_resource(NoName, ident, methods, secure, resource_name,
                                         parent_resource)]
    /\ UNCHANGED <<is_org, db, nextId, before, resp>>

-----------------------------------------------------------------------------

Init ==
    /\ is_org \in BOOLEAN
    /\ db = {}
    /\ nextId = 1
    /\ before = {}
    /\ resp = Idle
    /\ app = NoApp

Next ==
    \/ Add
    \/ Get
    \/ Update
    \/ Delete
    \/ List
    \/ Deliver

Spec == Init /\ [][Next]_vars

(* application start-up: the resource is registered *)
NextRoutes == AddResource

SpecRoutes == Init /\ [][NextRoutes]_vars

-----------------------------------------------------------------------------
(* Properties *)

IsList == resp.kind = "list"
IsItem == resp.kind \in {"get", "update", "delete"}
IsWrite == resp.kind \in {"add", "update"}

(* the record an item request names, as the url and the tenant give it *)
Named(rows, org, id) == {r \in rows : r.id = id /\ (is_org => r.org_id = org)}

(* the records the filter and search stages should leave: the tenant's,    *)
(* equal to the filter on every column it names, matching the search on    *)
(* one of its fields                                                       *)
Expected(rows, org, modifiers) ==
    {r \in rows :
        /\ is_org => r.org_id = org
        /\ "filter" \in DOMAIN modifiers =>
              \A c \in DOMAIN modifiers["filter"] : r[c] = modifiers["filter"][c].v
        /\ "search" \in DOMAIN modifiers =>
              \E i \in DOMAIN modifiers["search"].f :
                 ILike(ColumnText(r, modifiers["search"].f[i]), modifiers["search"].t.v)}

\* C1: the list endpoint of a tenant-scoped model, run under tenant T, returns
\* no record whose org_id differs from T, whatever the validated query string,
\* a filter naming org_id included.
C1_TenantListIsolated ==
    (IsList /\ is_org /\ resp.status = 200)
        => \A i \in DOMAIN resp.rows : resp.rows[i].org_id = resp.org

C3_ParsedLimitPagePositive ==
    (IsList /\ resp.parsed)
        => /\ "limit" \in DOMAIN resp.modifiers => resp.modifiers["limit"] >= 1
           /\ "page" \in DOMAIN resp.modifiers => resp.modifiers["page"] >= 1

\* C4: the ValidationError of the parser has one entry for every failing key of the
\* query string, the undecodable select/search/filter keys as "Invalid JSON string".
C4_ParseErrorsAggregated ==
    (IsList /\ resp.exc = "ValidationError")
        => /\ DOMAIN resp.errors = {k \in DOMAIN resp.qs : KeyError(k, resp.qs[k]) # ""}
           /\ \A k \in DOMAIN resp.qs \cap json_keys :
                 resp.qs[k].json = "invalid" => resp.errors[k] = "Invalid JSON string"

(* the payload of the write request in flight reaches validation and fails it *)
PayloadInvalid ==
    /\ IsWrite /\ resp.isJson /\ resp.body.ok
    /\ \/ /\ resp.kind = "add"
          /\ Validate(IF is_org THEN DictUpdate(resp.body.doc, "org_id" :> JInt(resp.org))
                       ELSE resp.body.doc, FALSE) # EmptyDict
       \/ /\ resp.kind = "update"
          /\ Named(before, resp.org, resp.id) # {}
          /\ Validate(resp.body.doc, TRUE) # EmptyDict

Mutating == {"CONSTRUCT", "IMPORT", "ADD", "APPLY", "DELETE", "COMMIT"}

\* C5: a write request whose payload fails validation ends in a ValidationError
\* carrying the error map; nothing is constructed, assigned, added or committed
\* and the stored records are the ones before the request.
C5_InvalidWriteAppliesNothing ==
    PayloadInvalid
        => /\ resp.exc = "ValidationError" /\ resp.status = 400
           /\ resp.errors # EmptyDict
           /\ Range(resp.steps) \cap Mutating = {}
           /\ db = before

C5_Witness ==
    /\ PayloadInvalid /\ resp.kind = "update" /\ resp.exc = "ValidationError"
    /\ "name" \in DOMAIN resp.errors

\* C6: a write request (POST or PATCH) with a non-JSON content type is rejected
\* with 415 and one with an unparseable JSON body with 400, before the view
\* function runs, the records unchanged.
C6_MalformedWriteRejectedBeforeView ==
    (IsWrite /\ (~resp.isJson \/ ~resp.body.ok))
        => /\ resp.status = IF ~resp.isJson THEN 415 ELSE 400
           /\ resp.steps = <<>>
           /\ db = before

\* C7: an item request whose identifier (and tenant) names no record ends in 404
\* with the records unchanged; delete, validation, assignment and commit come
\* only after a successful lookup; a GET never changes the records.
C7_ItemLookupFirst ==
    IsItem
        => /\ Named(before, resp.org, resp.id) = {}
                => /\ resp.status = 404
                   /\ resp.steps = <<"LOOKUP", "NOT_FOUND">>
                   /\ db = before
           /\ Range(resp.steps) \cap (Mutating \cup {"VALIDATE"}) # {}
                => /\ Named(before, resp.org, resp.id) # {}
                   /\ SubSeq(resp.steps, 1, 2) = <<"LOOKUP", "FOUND">>
           /\ resp.kind = "get" => db = before

C7_Witness ==
    /\ resp.kind = "delete" /\ resp.status = 404
    /\ \E r \in before : r.id = resp.id

\* C8: with secure set, a tenant-scoped model and no parent_resource given, every
\* registered binding is guarded by require_auth(resource_name, "org").
C8_SecureTenantBindingsGuarded ==
    (app.registered /\ app.args.secure /\ is_org /\ app.args.parent_resource = None)
        => \A b \in app.rules : b.guard.guarded /\ b.guard.parent = "org"

\* C9: add, get, update and delete requests under tenant A create records of A
\* only and leave the records of every other tenant as they were.
C9_TenantScopedOperations ==
    (is_org /\ resp.kind \in {"add", "get", "update", "delete"})
        => /\ \A r \in db \ before : r.org_id = resp.org
           /\ \A o \in Orgs \ {resp.org} : RecordsOf(db, o) = RecordsOf(before, o)

\* C10: the items of a list response are the page of limit records at offset
\* (page - 1) * limit of the tenant's records that pass filter and search, in
\* sort order, the total is their number, and no matching record gives an empty
\* list with total 0 and no error.  Stated for a page and a limit of at least 1
\* and, for the empty result, for the first page.
C10_PipelineOrderAndTotal ==
    (IsList /\ resp.parsed /\ SortValid(resp.modifiers)
            /\ Get_(resp.modifiers, "page", 1) >= 1
            /\ Get_(resp.modifiers, "limit", 1) >= 1)
        => LET expected == Expected(before, resp.org, resp.modifiers)
               offset   == (resp.page - 1) * resp.limit
           IN  /\ resp.status = 200 =>
                     /\ \E s \in Orderings(expected, SortOf(resp.modifiers)) :
                           resp.rows = SubSeq(s, offset + 1, Min(offset + resp.limit, Len(s)))
                     /\ resp.total = Cardinality(expected)
               /\ (expected = {} /\ Get_(resp.modifiers, "page", 1) = 1) =>
                     resp.status = 200 /\ resp.rows = <<>> /\ resp.total = 0

====
